---------------------------- MODULE Spec2Model ----------------------------
(***************************************************************************)
(* A model of lib/src/status.rs of bootc: the image-reference translator,  *)
(* boot_entry_from_deployment and get_status.                              *)
(*                                                                         *)
(* Rust's Option<T> is a sequence of length at most one (None is <<>>,     *)
(* Some(v) is <<v>>).  A String the code edits (a transport) is a sequence *)
(* of one-character strings; an opaque String is a TLA+ value.             *)
(***************************************************************************)
EXTENDS Integers, Sequences, FiniteSets, TLC

VARIABLES
    pc,         \* position of the modelled call: "idle", "done", "convert" or "panicked"
    sysroot,    \* the Storage handed to get_status / boot_entry_from_deployment
    booted,     \* get_status: Option<&Deployment> booted_deployment
    deployment, \* boot_entry_from_deployment: Option of the &Deployment argument
    ret,        \* Option of the Result the call returned
    trace       \* reference translator: the values converted so far, oldest first

vars == <<pc, sysroot, booted, deployment, ret, trace>>

-----------------------------------------------------------------------------
(* Bounds of the model *)

\* at most this many deployments in the sysroot
MaxDeployments == 4
\* at most this many From conversions applied in a row to one reference
MaxConversions == 4

-----------------------------------------------------------------------------
(* Option and Result *)

None == <<>>
Some(v) == <<v>>
IsSome(o) == o # <<>>
IsNone(o) == o = <<>>
Unwrap(o) == o[1]

Ok(v) == [tag |-> "Ok", value |-> v]
Err(context) == [tag |-> "Err", context |-> context]
IsOk(r) == r.tag = "Ok"

-----------------------------------------------------------------------------
(* Strings the code edits, as sequences of characters *)

\* str::rfind(ch): the index (from 1) of the last occurrence, 0 when absent
rfind(s, ch) ==
    IF \E i \in 1..Len(s) : s[i] = ch
    THEN CHOOSE i \in 1..Len(s) : s[i] = ch /\ \A j \in (i+1)..Len(s) : s[j] # ch
    ELSE 0

\* String::truncate(new_len) with rfind's byte offset (index - 1)
truncate(s, idx) == SubSeq(s, 1, idx - 1)

REGISTRY_STR == <<"r","e","g","i","s","t","r","y">>
DOCKER_STR == <<"d","o","c","k","e","r">>
OCI_STR == <<"o","c","i">>
OCI_ARCHIVE_STR == <<"o","c","i","-","a","r","c","h","i","v","e">>
DOCKER_ARCHIVE_STR == <<"d","o","c","k","e","r","-","a","r","c","h","i","v","e">>
CONTAINERS_STORAGE_STR ==
    <<"c","o","n","t","a","i","n","e","r","s","-","s","t","o","r","a","g","e">>
LOCAL_DIRECTORY_STR == <<"d","i","r">>
UNKNOWN_STR == <<"f","t","p">>

\* ostree_container::Transport
Transports ==
    {"Registry", "OciDir", "OciArchive", "DockerArchive", "ContainerStorage", "Dir"}

\* impl Display for Transport (what o.to_string() yields)
TransportToString(t) ==
    CASE t = "Registry" -> DOCKER_STR \o <<":", "/", "/">>
      [] t = "OciDir" -> OCI_STR \o <<":">>
      [] t = "OciArchive" -> OCI_ARCHIVE_STR \o <<":">>
      [] t = "DockerArchive" -> DOCKER_ARCHIVE_STR \o <<":">>
      [] t = "ContainerStorage" -> CONTAINERS_STORAGE_STR \o <<":">>
      [] t = "Dir" -> LOCAL_DIRECTORY_STR \o <<":">>

\* impl TryFrom<&str> for Transport (what img.transport.as_str().try_into() yields)
TransportTryFrom(s) ==
    CASE s = REGISTRY_STR \/ s = DOCKER_STR -> Ok("Registry")
      [] s = OCI_STR -> Ok("OciDir")
      [] s = OCI_ARCHIVE_STR -> Ok("OciArchive")
      [] s = DOCKER_ARCHIVE_STR -> Ok("DockerArchive")
      [] s = CONTAINERS_STORAGE_STR -> Ok("ContainerStorage")
      [] s = LOCAL_DIRECTORY_STR -> Ok("Dir")
      [] OTHER -> Err("Unknown transport")

\* a variant of transport_to_string that canonicalizes every transport to registry
transport_to_string_all_registry(transport) == REGISTRY_STR

\* transport_to_string(transport)
transport_to_string(transport) ==
    IF transport = "Registry"
    THEN REGISTRY_STR
    ELSE LET s == TransportToString(transport)
         IN  truncate(s, rfind(s, ":"))

-----------------------------------------------------------------------------
(* Signatures.  SignatureSource and ImageSignature are tagged unions; the  *)
(* remote name is "" for the variants that carry none.                     *)

SigOstreeRemote(r) == [kind |-> "OstreeRemote", remote |-> r]
SigContainerPolicy == [kind |-> "ContainerPolicy", remote |-> ""]
SigContainerPolicyAllowInsecure == [kind |-> "ContainerPolicyAllowInsecure", remote |-> ""]
SigInsecure == [kind |-> "Insecure", remote |-> ""]

\* impl From<SignatureSource> for ImageSignature
ImageSignatureFrom(sig) ==
    CASE sig.kind = "OstreeRemote" -> SigOstreeRemote(sig.remote)
      [] sig.kind = "ContainerPolicy" -> SigContainerPolicy
      [] sig.kind = "ContainerPolicyAllowInsecure" -> SigInsecure

\* impl From<ImageSignature> for SignatureSource
SignatureSourceFrom(sig) ==
    CASE sig.kind = "OstreeRemote" -> SigOstreeRemote(sig.remote)
      [] sig.kind = "ContainerPolicy" -> SigContainerPolicy
      [] sig.kind = "Insecure" -> SigContainerPolicyAllowInsecure

\* a variant of the conversion that keeps an allow-insecure mode as Some(Insecure)
ImageReferenceFrom_keep_insecure(imgref) ==
    [ signature |-> Some(ImageSignatureFrom(imgref.sigverify)),
      transport |-> transport_to_string(imgref.imgref.transport),
      image |-> imgref.imgref.name ]

\* impl From<OstreeImageReference> for ImageReference
ImageReferenceFrom(imgref) ==
    LET signature ==
            IF imgref.sigverify.kind = "ContainerPolicyAllowInsecure"
            THEN None
            ELSE Some(ImageSignatureFrom(imgref.sigverify))
    IN  [ signature |-> signature,
          transport |-> transport_to_string(imgref.imgref.transport),
          image |-> imgref.imgref.name ]

\* impl From<ImageReference> for OstreeImageReference; the unwrap() of a
\* transport that does not parse is a panic, returned here as Err
OstreeImageReferenceFrom(img) ==
    LET sigverify ==
            IF IsSome(img.signature)
            THEN SignatureSourceFrom(Unwrap(img.signature))
            ELSE SigContainerPolicyAllowInsecure
        transport == TransportTryFrom(img.transport)
    IN  IF IsOk(transport)
        THEN Ok([ sigverify |-> sigverify,
                  imgref |-> [transport |-> transport.value, name |-> img.image] ])
        ELSE Err("panic: unwrap on Err")

-----------------------------------------------------------------------------
(* Boot Entry Builder *)

\* crate::utils::origin_has_rpmostree_stuff: the origin keyfile records local
\* (non-image-managed) modifications
origin_has_rpmostree_stuff(origin) == origin.rpmostree

\* get_image_origin: the origin's container-image key, parsed.  The key's
\* string value is carried with the outcome of OstreeImageReference::try_from.
get_image_origin(origin) ==
    IF IsNone(origin.container)
    THEN Ok(None)
    ELSE LET parsed == Unwrap(origin.container).parsed
         IN  IF IsOk(parsed)
             THEN Ok(Some(parsed.value))
             ELSE Err("Failed to parse container image reference")

CachedImageStatusDefault == [image |-> None, cached_update |-> None]

\* store.imagestatus(sysroot, deployment, image): the image-status provider.
\* What it answers is the sysroot's: a failure, nothing cached, or the status
\* of the image the origin names, with or without a cached update.
imagestatus(sys, d, image) ==
    LET status == [image |-> ImageReferenceFrom(image), version |-> None]
    IN  CASE sys.imagestatus = "err" -> Err("imagestatus")
          [] sys.imagestatus = "empty" -> Ok(CachedImageStatusDefault)
          [] sys.imagestatus = "image" ->
                Ok([image |-> Some(status), cached_update |-> None])
          [] sys.imagestatus = "update" ->
                Ok([image |-> Some(status), cached_update |-> Some(status)])

\* the BootEntry of lines 154-165
BootEntry(d, store, cached, incompatible) ==
    [ image |-> cached.image,
      cached_update |-> cached.cached_update,
      incompatible |-> incompatible,
      store |-> store,
      pinned |-> d.pinned,
      ostree |-> Some([checksum |-> d.csum, deploy_serial |-> d.deployserial]) ]

\* a variant of boot_entry_from_deployment that reads the image reference
\* before it looks at the incompatible flag
boot_entry_from_deployment_image_first(sys, d) ==
    IF IsSome(d.origin)
    THEN LET origin == Unwrap(d.origin)
             incompatible == origin_has_rpmostree_stuff(origin)
             image == get_image_origin(origin)
         IN  IF ~IsOk(image)
             THEN Err("Reading deployment metadata")
             ELSE IF IsSome(image.value)
             THEN IF ~IsOk(d.store)
                  THEN Err("Reading deployment metadata")
                  ELSE LET spec == IF IsSome(d.store.value)
                                   THEN Some(Unwrap(d.store.value))
                                   ELSE Some(sys.store)
                           status == imagestatus(sys, d, Unwrap(image.value))
                       IN  IF ~IsOk(status)
                           THEN Err("Reading deployment metadata")
                           ELSE Ok(BootEntry(d, spec, status.value, incompatible))
             ELSE Ok(BootEntry(d, None, CachedImageStatusDefault, incompatible))
    ELSE Ok(BootEntry(d, None, CachedImageStatusDefault, FALSE))

\* boot_entry_from_deployment(sysroot, deployment) -> Result<BootEntry>
boot_entry_from_deployment(sys, d) ==
    IF IsSome(d.origin)
    THEN LET origin == Unwrap(d.origin)
             incompatible == origin_has_rpmostree_stuff(origin)
         IN  IF incompatible
             THEN Ok(BootEntry(d, None, CachedImageStatusDefault, incompatible))
             ELSE LET image == get_image_origin(origin)
                  IN  IF ~IsOk(image)
                      THEN Err("Reading deployment metadata")
                      ELSE IF IsSome(image.value)
                      THEN IF ~IsOk(d.store)
                           THEN Err("Reading deployment metadata")
                           ELSE LET spec == IF IsSome(d.store.value)
                                            THEN Some(Unwrap(d.store.value))
                                            ELSE Some(sys.store)
                                    status ==
                                        imagestatus(sys, d, Unwrap(image.value))
                                IN  IF ~IsOk(status)
                                    THEN Err("Reading deployment metadata")
                                    ELSE Ok(BootEntry(d, spec, status.value,
                                                      incompatible))
                      ELSE Ok(BootEntry(d, None, CachedImageStatusDefault,
                                        incompatible))
    ELSE Ok(BootEntry(d, None, CachedImageStatusDefault, FALSE))

-----------------------------------------------------------------------------
(* Deployment Classifier and Host Status Assembler: get_status *)

\* ostree::Deployment::equal: same osname, checksum and deployserial
equal(a, b) ==
    a.osname = b.osname /\ a.csum = b.csum /\ a.deployserial = b.deployserial

\* line 202: booted_deployment.as_ref().map(|d| d.osname())
stateroot_of(booted_deployment) ==
    IF IsSome(booted_deployment)
    THEN Some(Unwrap(booted_deployment).osname)
    ELSE None

\* a variant of the partition predicate that takes every deployment as
\* related when there is no booted deployment
is_related_or_unbooted(d, stateroot) ==
    IsNone(stateroot) \/ Some(d.osname) = stateroot

\* the partition predicate of line 206: Some(d.osname()) == stateroot
is_related(d, stateroot) == Some(d.osname) = stateroot

\* lines 203-206: partition, each half in input order
partition_related(deployments, stateroot) ==
    SelectSeq(deployments, LAMBDA d : is_related(d, stateroot))

partition_other(deployments, stateroot) ==
    SelectSeq(deployments, LAMBDA d : ~is_related(d, stateroot))

\* a variant of position_staged that finds the last staged deployment
position_staged_last(related) ==
    IF \E i \in 1..Len(related) : related[i].staged
    THEN Some(CHOOSE i \in 1..Len(related) :
                /\ related[i].staged
                /\ \A j \in (i+1)..Len(related) : ~related[j].staged)
    ELSE None

\* lines 207-209: iter().position(|d| d.is_staged()), counted from 1
position_staged(related) ==
    IF \E i \in 1..Len(related) : related[i].staged
    THEN Some(CHOOSE i \in 1..Len(related) :
                /\ related[i].staged
                /\ \A j \in 1..(i-1) : ~related[j].staged)
    ELSE None

\* a variant of remove that leaves the element in the queue
remove_keep(q, i) == q

\* VecDeque::remove(i): the queue without its i-th element
remove(q, i) == SubSeq(q, 1, i-1) \o SubSeq(q, i+1, Len(q))

\* a variant of retain_not_booted that keeps the booted deployment
retain_all(related, booted_deployment) == related

\* lines 213-215: related_deployments.retain(|f| !f.equal(booted))
retain_not_booted(related, booted_deployment) ==
    IF IsSome(booted_deployment)
    THEN SelectSeq(related, LAMBDA f : ~equal(f, Unwrap(booted_deployment)))
    ELSE related

\* a variant of rollback_queued that compares the indexes the other way
rollback_queued_reversed(booted_deployment, rollback) ==
    IF IsSome(booted_deployment) /\ IsSome(rollback)
    THEN Unwrap(rollback).index > Unwrap(booted_deployment).index
    ELSE FALSE

\* lines 217-220
rollback_queued(booted_deployment, rollback) ==
    IF IsSome(booted_deployment) /\ IsSome(rollback)
    THEN Unwrap(rollback).index < Unwrap(booted_deployment).index
    ELSE FALSE

\* lines 221-225
boot_order_of(queued) == IF queued THEN "Rollback" ELSE "Default"

\* HostSpec::default(), what unwrap_or_default() yields at line 262
HostSpecDefault == [image |-> None, boot_order |-> "Default"]

\* a variant of host_spec that falls back to the booted entry when the
\* staged entry has no image
host_spec_image_fallback(staged, booted_entry, boot_order) ==
    LET img == IF IsSome(staged) /\ IsSome(Unwrap(staged).image)
               THEN Unwrap(staged).image
               ELSE IF IsSome(booted_entry) THEN Unwrap(booted_entry).image ELSE None
    IN  IF IsSome(img)
        THEN [image |-> Some(Unwrap(img).image), boot_order |-> boot_order]
        ELSE HostSpecDefault

\* a variant of host_spec that carries the boot order when no image is found
host_spec_keep_order(staged, booted_entry, boot_order) ==
    LET entry == IF IsSome(staged) THEN staged ELSE booted_entry
        img == IF IsSome(entry) THEN Unwrap(entry).image ELSE None
    IN  [ image |-> IF IsSome(img) THEN Some(Unwrap(img).image) ELSE None,
          boot_order |-> boot_order ]

\* lines 254-262: staged.or(booted).and_then(image).map(HostSpec).unwrap_or_default()
host_spec(staged, booted_entry, boot_order) ==
    LET entry == IF IsSome(staged) THEN staged ELSE booted_entry
        img == IF IsSome(entry) THEN Unwrap(entry).image ELSE None
    IN  IF IsSome(img)
        THEN [image |-> Some(Unwrap(img).image), boot_order |-> boot_order]
        ELSE HostSpecDefault

\* lines 264-273
host_type(booted_entry) ==
    IF IsSome(booted_entry) /\ IsSome(Unwrap(booted_entry).image)
    THEN Some("BootcHost")
    ELSE None

\* .map(|d| boot_entry_from_deployment(sysroot, d)).transpose()
entry_of(sys, d) ==
    IF IsNone(d)
    THEN Ok(None)
    ELSE LET r == boot_entry_from_deployment(sys, Unwrap(d))
         IN  IF IsOk(r) THEN Ok(Some(r.value)) ELSE r

\* get_status(sysroot, booted_deployment) -> Result<(Deployments, Host)>
get_status(sys, booted_deployment) ==
    LET stateroot == stateroot_of(booted_deployment)
        related0 == partition_related(sys.deployments, stateroot)
        other_deployments == partition_other(sys.deployments, stateroot)
        pos == position_staged(related0)
        staged == IF IsSome(pos) THEN Some(related0[Unwrap(pos)]) ELSE None
        related1 == IF IsSome(pos) THEN remove(related0, Unwrap(pos)) ELSE related0
        related2 == retain_not_booted(related1, booted_deployment)
        rollback == IF related2 = <<>> THEN None ELSE Some(Head(related2))
        related3 == IF related2 = <<>> THEN related2 ELSE Tail(related2)
        queued == rollback_queued(booted_deployment, rollback)
        boot_order == boot_order_of(queued)
        deployments ==
            [ staged |-> staged,
              rollback |-> rollback,
              other |-> related3 \o other_deployments ]
        staged_entry == entry_of(sys, staged)
        booted_entry == entry_of(sys, booted_deployment)
        rollback_entry == entry_of(sys, rollback)
    IN  IF ~IsOk(staged_entry) THEN Err("Staged deployment")
        ELSE IF ~IsOk(booted_entry) THEN Err("Booted deployment")
        ELSE IF ~IsOk(rollback_entry) THEN Err("Rollback deployment")
        ELSE Ok([ deployments |-> deployments,
                  host |->
                    [ spec |-> host_spec(staged_entry.value, booted_entry.value,
                                         boot_order),
                      status |->
                        [ staged |-> staged_entry.value,
                          booted |-> booted_entry.value,
                          rollback |-> rollback_entry.value,
                          rollback_queued |-> queued,
                          ty |-> host_type(booted_entry.value) ] ] ])

-----------------------------------------------------------------------------
(* The inputs the calls are given *)

ImageName(i) == <<"quay.io/example/image", i>>

\* an OstreeImageReference as get_image_origin parses it from an origin
OstreeRef(sig, t, i) ==
    [sigverify |-> sig, imgref |-> [transport |-> t, name |-> ImageName(i)]]

\* origin keyfiles: the rpm-ostree marker and the container-image key
Origin(rpmostree, container) ==
    Some([rpmostree |-> rpmostree, container |-> container])
ContainerKey(i) ==
    Some([parsed |-> Ok(OstreeRef(SigContainerPolicyAllowInsecure, "Registry", i))])
MalformedKey == Some([parsed |-> Err("malformed")])

\* the origins of the deployments of a sysroot given to get_status: without
\* or with a container-image key (the key of the deployment at position i
\* names image i)
OriginKinds == {"plain", "image"}
OriginOf(kind, i) ==
    CASE kind = "plain" -> Origin(FALSE, None)
      [] kind = "image" -> Origin(FALSE, ContainerKey(i))
      [] kind = "malformed" -> Origin(FALSE, MalformedKey)

OsNames == {"default", "other"}

\* the deployment list sysroot.deployments() returns, n deployments long; a
\* deployment's index() is its place in that list, counted from 0
DeploymentList(n, os, st, org) ==
    [i \in 1..n |->
        [ osname |-> os[i], csum |-> i, deployserial |-> 0, index |-> i - 1,
          staged |-> st[i], pinned |-> FALSE, origin |-> OriginOf(org[i], i),
          store |-> Ok(None) ]]

Storage(deployments, status) ==
    [deployments |-> deployments, store |-> "sysroot-store", imagestatus |-> status]

\* sysroot.booted_deployment(): none, or one of the sysroot's deployments
BootedOf(sys) ==
    {None} \cup {Some(sys.deployments[i]) : i \in 1..Len(sys.deployments)}

\* the deployments boot_entry_from_deployment is given
EntryOrigins ==
    {None} \cup
    {Origin(r, c) : r \in BOOLEAN, c \in {None, ContainerKey(1), MalformedKey}}
EntryDeployments ==
    { [ osname |-> "default", csum |-> 1, deployserial |-> ds, index |-> 0,
        staged |-> FALSE, pinned |-> p, origin |-> o, store |-> st ] :
        ds \in {0, 1}, p \in BOOLEAN, o \in EntryOrigins,
        st \in {Ok(None), Ok(Some("deployment-store")), Err("store")} }
EntrySysroots == {Storage(<<>>, s) : s \in {"err", "empty", "image", "update"}}

\* the references the translator is given
Remotes == {"fedora", "centos"}
ImageSignatures ==
    {SigOstreeRemote(r) : r \in Remotes} \cup {SigContainerPolicy, SigInsecure}
SignatureSources ==
    {SigOstreeRemote(r) : r \in Remotes} \cup
    {SigContainerPolicy, SigContainerPolicyAllowInsecure}
CanonicalTransports ==
    {REGISTRY_STR, OCI_STR, OCI_ARCHIVE_STR, DOCKER_ARCHIVE_STR,
     CONTAINERS_STORAGE_STR, LOCAL_DIRECTORY_STR}
ImageReferences ==
    { [signature |-> sig, transport |-> t, image |-> ImageName(i)] :
        sig \in {None} \cup {Some(x) : x \in ImageSignatures},
        t \in CanonicalTransports \cup {DOCKER_STR, UNKNOWN_STR},
        i \in {1, 2} }
OstreeImageReferences ==
    {OstreeRef(sig, t, i) : sig \in SignatureSources, t \in Transports, i \in {1, 2}}

-----------------------------------------------------------------------------
(* The calls *)

Init ==
    /\ pc = "idle"
    /\ sysroot = Storage(<<>>, "image")
    /\ booted = None
    /\ deployment = None
    /\ ret = None
    /\ trace = <<>>

\* status: get_status(&sysroot, sysroot.booted_deployment())
GetStatus ==
    /\ pc = "idle"
    /\ \E n \in 0..MaxDeployments :
       \E os \in [1..n -> OsNames], st \in [1..n -> BOOLEAN],
          org \in [1..n -> OriginKinds], status \in {"image", "err"} :
          LET sys == Storage(DeploymentList(n, os, st, org), status)
          IN  \E b \in BootedOf(sys) :
                 /\ sysroot' = sys
                 /\ booted' = b
                 /\ ret' = Some(get_status(sys, b))
    /\ pc' = "done"
    /\ UNCHANGED <<deployment, trace>>

\* boot_entry_from_deployment(sysroot, deployment)
BootEntryFromDeployment ==
    /\ pc = "idle"
    /\ \E sys \in EntrySysroots : \E d \in EntryDeployments :
          /\ sysroot' = sys
          /\ deployment' = Some(d)
          /\ ret' = Some(boot_entry_from_deployment(sys, d))
    /\ pc' = "done"
    /\ UNCHANGED <<booted, trace>>

\* a reference enters the translator, from the bootc side or the ostree side
Receive ==
    /\ pc = "idle"
    /\ \/ \E r \in ImageReferences : trace' = <<[side |-> "bootc", value |-> r]>>
       \/ \E r \in OstreeImageReferences :
             trace' = <<[side |-> "ostree", value |-> r]>>
    /\ pc' = "convert"
    /\ UNCHANGED <<sysroot, booted, deployment, ret>>

Last(s) == s[Len(s)]

\* OstreeImageReference::from(img)
IntoOstree ==
    /\ pc = "convert"
    /\ Len(trace) <= MaxConversions
    /\ Last(trace).side = "bootc"
    /\ LET r == OstreeImageReferenceFrom(Last(trace).value)
       IN  IF IsOk(r)
           THEN /\ trace' = Append(trace, [side |-> "ostree", value |-> r.value])
                /\ pc' = pc
           ELSE /\ trace' = trace
                /\ pc' = "panicked"
    /\ UNCHANGED <<sysroot, booted, deployment, ret>>

\* ImageReference::from(imgref)
FromOstree ==
    /\ pc = "convert"
    /\ Len(trace) <= MaxConversions
    /\ Last(trace).side = "ostree"
    /\ trace' = Append(trace, [side |-> "bootc",
                               value |-> ImageReferenceFrom(Last(trace).value)])
    /\ UNCHANGED <<pc, sysroot, booted, deployment, ret>>

Next == GetStatus

Spec == Init /\ [][Next]_vars

NextEntry == BootEntryFromDeployment

SpecEntry == Init /\ [][NextEntry]_vars

NextRef == Receive \/ IntoOstree \/ FromOstree

SpecRef == Init /\ [][NextRef]_vars

-----------------------------------------------------------------------------
(* Properties of get_status, checked under Spec *)

\* get_status has returned Ok((deployments, host))
StatusReturned == pc = "done" /\ IsSome(ret) /\ IsOk(Unwrap(ret))
Deps == Unwrap(ret).value.deployments
Host == Unwrap(ret).value.host
Listed == sysroot.deployments
InOther(d) == \E k \in 1..Len(Deps.other) : Deps.other[k] = d
Least(S) == CHOOSE i \in S : \A j \in S : i <= j

\* C1: rollbackQueued is true if and only if a booted deployment was given,
\* a rollback deployment was selected and the rollback's boot index is
\* strictly less than the booted deployment's boot index.
C1_RollbackQueuedIff ==
    StatusReturned =>
        ( Host.status.rollback_queued
          <=> ( /\ IsSome(booted)
                /\ IsSome(Deps.rollback)
                /\ Unwrap(Deps.rollback).index < Unwrap(booted).index ) )

\* get_status returned with a rollback queued beside a staged deployment
C1_Witness ==
    /\ StatusReturned
    /\ Host.status.rollback_queued
    /\ IsSome(Deps.staged)
    /\ Deps.other # <<>>

\* the related deployments (by the booted deployment's osname) that are staged
RelatedStaged ==
    {i \in 1..Len(Listed) :
        Listed[i].osname = Unwrap(booted).osname /\ Listed[i].staged}

\* C2: when a deployment of the target state-root is staged, the classifier's
\* staged output is the first such deployment in input order, it is neither
\* the rollback nor in other, and every further staged deployment of the
\* state-root (but the booted one) is the rollback or in other.
C2_StagedPriority ==
    (StatusReturned /\ IsSome(booted) /\ RelatedStaged # {}) =>
        LET f == Least(RelatedStaged)
        IN  /\ Deps.staged = Some(Listed[f])
            /\ Deps.rollback # Some(Listed[f])
            /\ ~InOther(Listed[f])
            /\ \A j \in RelatedStaged \ {f} :
                  ~equal(Listed[j], Unwrap(booted)) =>
                      (Deps.rollback = Some(Listed[j]) \/ InOther(Listed[j]))

\* two deployments of the booted state-root are staged; the second one is the
\* rollback
C2_Witness ==
    /\ StatusReturned
    /\ IsSome(booted)
    /\ Cardinality(RelatedStaged) >= 2
    /\ IsSome(Deps.rollback)
    /\ Unwrap(Deps.rollback).staged
    /\ Deps.staged = Some(Listed[Least(RelatedStaged)])

\* C3: no deployment equal to the booted one is the rollback or is in other.
C3_BootedExcluded ==
    (StatusReturned /\ IsSome(booted)) =>
        /\ IsSome(Deps.rollback) => ~equal(Unwrap(Deps.rollback), Unwrap(booted))
        /\ \A k \in 1..Len(Deps.other) : ~equal(Deps.other[k], Unwrap(booted))

\* the booted deployment is staged, follows another staged deployment of its
\* state-root (so it is not the staged output), and a rollback was selected
C3_Witness ==
    /\ StatusReturned
    /\ IsSome(booted)
    /\ Unwrap(booted).staged
    /\ IsSome(Deps.staged)
    /\ Deps.staged # booted
    /\ IsSome(Deps.rollback)
    /\ Listed[1] # Unwrap(booted)

\* C4 as stated: with no booted deployment every deployment is related:
\* staged is the first staged deployment of the list, rollback the first
\* remaining one, and rollbackQueued is false.
C4_Original ==
    (StatusReturned /\ IsNone(booted)) =>
        LET S == {i \in 1..Len(Listed) : Listed[i].staged}
            rest == IF S = {} THEN Listed ELSE remove(Listed, Least(S))
        IN  /\ Deps.staged = IF S = {} THEN None ELSE Some(Listed[Least(S)])
            /\ Deps.rollback = IF rest = <<>> THEN None ELSE Some(Head(rest))
            /\ ~Host.status.rollback_queued

\* C4 (amended): with no booted deployment no deployment is related: staged
\* and rollback are absent, other is the whole list in input order, and
\* rollbackQueued is false.
C4_NoBootedAllOther ==
    (StatusReturned /\ IsNone(booted)) =>
        /\ Deps.staged = None
        /\ Deps.rollback = None
        /\ Deps.other = Listed
        /\ ~Host.status.rollback_queued

\* get_status returned for a sysroot with a staged deployment and no booted one
C4_Witness ==
    /\ StatusReturned
    /\ IsNone(booted)
    /\ Len(Listed) >= 2
    /\ \E i \in 1..Len(Listed) : Listed[i].staged

\* the image address of an Option<BootEntry>, None when there is no entry or
\* the entry has no image
ImageOf(entry) ==
    IF IsSome(entry) /\ IsSome(Unwrap(entry).image)
    THEN Some(Unwrap(Unwrap(entry).image).image)
    ELSE None

\* C5 as stated: spec.image is the staged entry's image if a staged entry
\* exists and has an image, otherwise the booted entry's image if it has one,
\* otherwise absent.
C5_Original ==
    StatusReturned =>
        Host.spec.image =
            IF IsSome(ImageOf(Host.status.staged))
            THEN ImageOf(Host.status.staged)
            ELSE ImageOf(Host.status.booted)

\* C5 (amended): spec.image is the staged entry's image if a staged entry
\* exists (absent when that entry has no image, whatever the booted entry
\* has); with no staged entry it is the booted entry's image if that entry
\* has one; otherwise it is absent.
C5_SpecImage ==
    StatusReturned =>
        Host.spec.image =
            IF IsSome(Host.status.staged)
            THEN ImageOf(Host.status.staged)
            ELSE ImageOf(Host.status.booted)

\* a staged entry without an image beside a booted entry with one
C5_Witness ==
    /\ StatusReturned
    /\ IsSome(Host.status.staged)
    /\ IsNone(ImageOf(Host.status.staged))
    /\ IsSome(ImageOf(Host.status.booted))

\* C6 as stated: spec.bootOrder is Rollback exactly when rollbackQueued is
\* true, whether or not the staged or booted entry has an image.
C6_Original ==
    StatusReturned =>
        (Host.spec.boot_order = "Rollback" <=> Host.status.rollback_queued)

\* C6 (amended): spec.bootOrder is Rollback exactly when rollbackQueued is
\* true and spec.image is present; when no image was found for the spec,
\* bootOrder is Default even with a rollback queued.
C6_SpecBootOrder ==
    StatusReturned =>
        /\ Host.spec.boot_order \in {"Default", "Rollback"}
        /\ Host.spec.boot_order = "Rollback"
             <=> (Host.status.rollback_queued /\ IsSome(Host.spec.image))

\* a rollback is queued and the spec carries no image
C6_Witness ==
    /\ StatusReturned
    /\ Host.status.rollback_queued
    /\ IsNone(Host.spec.image)
    /\ Host.spec.boot_order = "Default"

\* the deployments of the booted deployment's state-root, in input order
RelatedOf(list) ==
    IF IsSome(booted)
    THEN SelectSeq(list, LAMBDA d : d.osname = Unwrap(booted).osname)
    ELSE <<>>
OtherRootOf(list) ==
    IF IsSome(booted)
    THEN SelectSeq(list, LAMBDA d : d.osname # Unwrap(booted).osname)
    ELSE list
Occurrences(q, d) == Cardinality({k \in 1..Len(q) : q[k] = d})
BoolToNat(b) == IF b THEN 1 ELSE 0

\* C10: other is the related deployments that are neither the staged one, nor
\* equal to the booted one, nor the rollback, in input order, followed by the
\* other-root deployments in input order; every listed deployment is exactly
\* one of staged, booted-excluded, rollback or a member of other.
C10_OtherIsTheRest ==
    StatusReturned =>
        /\ Deps.other =
              SelectSeq(RelatedOf(Listed),
                        LAMBDA d : /\ Some(d) # Deps.staged
                                   /\ ~(IsSome(booted) /\ equal(d, Unwrap(booted)))
                                   /\ Some(d) # Deps.rollback)
              \o OtherRootOf(Listed)
        /\ \A i \in 1..Len(Listed) :
              LET d == Listed[i]
              IN  BoolToNat(Some(d) = Deps.staged)
                  + BoolToNat(Some(d) # Deps.staged /\ Some(d) = booted)
                  + BoolToNat(Some(d) = Deps.rollback)
                  + Occurrences(Deps.other, d) = 1
        /\ Len(Deps.other) + BoolToNat(IsSome(Deps.staged))
             + BoolToNat(IsSome(Deps.rollback))
             + BoolToNat(IsSome(booted) /\ Deps.staged # booted) = Len(Listed)

\* staged, booted and rollback are three deployments and other holds a
\* related one followed by an other-root one
C10_Witness ==
    /\ StatusReturned
    /\ IsSome(booted)
    /\ IsSome(Deps.staged)
    /\ Deps.staged # booted
    /\ IsSome(Deps.rollback)
    /\ Len(Deps.other) >= 1
    /\ Deps.other[Len(Deps.other)].osname # Unwrap(booted).osname

-----------------------------------------------------------------------------
(* Properties of boot_entry_from_deployment, checked under SpecEntry *)

EntryGiven == pc = "done" /\ IsSome(deployment) /\ IsSome(ret)
GivenOrigin == Unwrap(deployment).origin
Modified == IsSome(GivenOrigin) /\ Unwrap(GivenOrigin).rpmostree
HasImageKey == IsSome(GivenOrigin) /\ IsSome(Unwrap(GivenOrigin).container)

\* C8: an origin with local modifications gives an entry with incompatible
\* set and no image, cached update or store, even beside a container-image
\* key; no origin, or an origin without the key and without modifications,
\* gives an entry with no image, no cached update and incompatible unset; an
\* image is present only when the origin exists, is not incompatible and
\* carries a container-image reference.
C8_IncompatibleWins ==
    EntryGiven =>
        LET r == Unwrap(ret)
        IN  /\ Modified =>
                  /\ IsOk(r)
                  /\ r.value.incompatible
                  /\ r.value.image = None
                  /\ r.value.cached_update = None
                  /\ r.value.store = None
            /\ (IsNone(GivenOrigin) \/ (~Modified /\ ~HasImageKey)) =>
                  /\ IsOk(r)
                  /\ ~r.value.incompatible
                  /\ r.value.image = None
                  /\ r.value.cached_update = None
            /\ (IsOk(r) /\ IsSome(r.value.image)) =>
                  /\ IsSome(GivenOrigin)
                  /\ ~r.value.incompatible
                  /\ ~Modified
                  /\ HasImageKey
                  /\ IsOk(Unwrap(Unwrap(GivenOrigin).container).parsed)

\* a modified origin that also carries a readable container-image key, for a
\* sysroot whose provider would answer with an image
C8_Witness ==
    /\ EntryGiven
    /\ Modified
    /\ HasImageKey
    /\ IsOk(Unwrap(Unwrap(GivenOrigin).container).parsed)
    /\ sysroot.imagestatus = "update"
    /\ IsOk(Unwrap(ret))
    /\ Unwrap(ret).value.incompatible

-----------------------------------------------------------------------------
(* Properties of the reference translator, checked under SpecRef *)

\* the trace starts at an ImageReference and has been to ostree and back
RoundTripped(n) ==
    pc = "convert" /\ Len(trace) >= n /\ trace[1].side = "bootc"

\* the canonical transports other than registry
NonRegistryTransports == CanonicalTransports \ {REGISTRY_STR}

\* C7 as stated: for every canonical transport other than registry and every
\* signature (absent, OstreeRemote, ContainerPolicy, Insecure) the round trip
\* through OstreeImageReference yields the reference it started from; for the
\* registry transport a second round trip changes nothing.
C7_Original ==
    /\ (RoundTripped(3) /\ trace[1].value.transport \in NonRegistryTransports) =>
          trace[3].value = trace[1].value
    /\ (RoundTripped(5) /\ trace[1].value.transport \in {REGISTRY_STR, DOCKER_STR}) =>
          trace[5].value = trace[3].value

\* C7 (amended): for every canonical transport other than registry and every
\* signature that is absent, OstreeRemote or ContainerPolicy the round trip
\* yields the reference it started from; with the signature Insecure it
\* yields that reference with the signature absent; for the registry
\* transport a second round trip changes nothing.
C7_RoundTrip ==
    /\ (RoundTripped(3) /\ trace[1].value.transport \in NonRegistryTransports) =>
          trace[3].value =
              IF trace[1].value.signature = Some(SigInsecure)
              THEN [trace[1].value EXCEPT !.signature = None]
              ELSE trace[1].value
    /\ (RoundTripped(5) /\ trace[1].value.transport \in {REGISTRY_STR, DOCKER_STR}) =>
          trace[5].value = trace[3].value

\* an oci-archive reference verified by an ostree remote has been to ostree
\* and back
C7_Witness ==
    /\ RoundTripped(3)
    /\ trace[1].value.transport = OCI_ARCHIVE_STR
    /\ IsSome(trace[1].value.signature)
    /\ Unwrap(trace[1].value.signature).kind = "OstreeRemote"

\* C9: from an allow-insecure external reference the signature is None; from
\* one with an ostree remote it is Some(OstreeRemote(name)) with the same
\* remote name and the same image name; a reference with signature None goes
\* out as allow-insecure; an explicit Insecure signature comes back as None,
\* and no conversion from external yields Some(Insecure).
C9_SignatureTranslation ==
    \A i \in 1..(Len(trace) - 1) :
        LET a == trace[i].value
            b == trace[i+1].value
        IN  /\ trace[i].side = "ostree" =>
                  /\ a.sigverify = SigContainerPolicyAllowInsecure =>
                        b.signature = None
                  /\ a.sigverify.kind = "OstreeRemote" =>
                        /\ b.signature = Some(SigOstreeRemote(a.sigverify.remote))
                        /\ b.image = a.imgref.name
                  /\ b.signature # Some(SigInsecure)
            /\ trace[i].side = "bootc" =>
                  /\ a.signature = None =>
                        b.sigverify = SigContainerPolicyAllowInsecure
                  /\ (a.signature = Some(SigInsecure) /\ i + 2 <= Len(trace)) =>
                        trace[i+2].value.signature = None

\* an explicit Insecure signature has been translated out and back
C9_Witness ==
    /\ RoundTripped(3)
    /\ trace[1].value.signature = Some(SigInsecure)
    /\ trace[2].value.sigverify = SigContainerPolicyAllowInsecure

=============================================================================
